---- MODULE Spec2Model ----
(***************************************************************************)
(* State-machine model of the clip processing pipeline of                  *)
(* backend/embedding_retrieval: VideoDownloader (video_downloader.py)      *)
(* with its rate limiter, VideoProcessor (video_processor.py),             *)
(* FrameExtractor (frame_extractor_class.py) and ContentModerator          *)
(* (content_moderator.py).                                                 *)
(***************************************************************************)
EXTENDS Integers, Sequences, FiniteSets, TLC

(***************************************************************************)
(* Program constants                                                       *)
(***************************************************************************)
\* VideoDownloader.CALLS: admissions per limiter period
CALLS == 5
\* VideoDownloader.RATE_LIMIT_PERIOD, in seconds
RATE_LIMIT_PERIOD == 60
\* len(DEFAULT_FRAME_PERCENTAGES): frames one extraction returns
NFrames == 3

(***************************************************************************)
(* Bounds of the model                                                     *)
(***************************************************************************)
\* self.max_file_size in bytes (100 MiB by default), scaled down
MaxFileBound == 3
\* largest chunk iter_content yields (DOWNLOAD_CHUNK_SIZE = 8192), scaled down
ChunkBound == 2
\* clips one fetch_all_clips call lists at most
MaxClips == 3
\* download_video calls a direct client of the downloader makes at most
MaxDirect == 3

\* seconds the clock advances in one Tick: a third of the period
TickSeconds == RATE_LIMIT_PERIOD \div 3

max_file_size == MaxFileBound
\* body lengths a server may send: up to one full chunk past the ceiling
MaxBody == MaxFileBound + ChunkBound
BodyLens == 0..MaxBody
\* values a Content-Length header may announce (it may lie about the body):
\* the largest size that passes the pre-flight check and the smallest that fails
ContentLengths == {MaxFileBound, MaxFileBound + 1}

ClipIds == {"c1", "c2"}
\* clip_path values: missing, malformed, well-formed with another scheme,
\* malformed with an http scheme, and two well-formed http/https URLs
URLS == {"", "not a url", "ftp://h/v.mov", "http://", "http://h/v.mov", "https://h/v.mov"}
\* Path.exists() is false
NoFile == -1
\* _check_file_size returned None: the size is unknown
NoSize == -1
\* the HEAD request itself failed: _check_file_size caught RequestException
HeadFailed == -2
None == "None"

Min(a, b) == IF a < b THEN a ELSE b

VARIABLES
  \* ---- VideoProcessor
  ppc,                  \* position of the processor
  nclips,               \* len(clips) of the current batch
  idx,                  \* 1-based index of the clip being processed
  clip,                 \* the clip record being processed
  result,               \* the ProcessingResult of the clip being processed
  results,              \* results dict of process_all_clips: clip id -> success
                        \* flag of the result stored under it
  total_processed, successful_processed, failed_processed,
  frames,               \* frames returned by the extractor for the current clip
  \* ---- file system
  fs,                   \* temp_dir/{id}.mov -> size in bytes, or NoFile
  saved,                \* frame files the current clip has written to disk
  \* ---- VideoDownloader.download_video
  dpc,                  \* position inside download_video
  durl, dpath,          \* its arguments url and local_path
  total_downloaded, expected_size,
  reported,             \* Content-Length the HEAD reply announced, NoSize
                        \* without one, HeadFailed when the request failed
  body_len,             \* length of the body the server sends for the GET
  derr,                 \* the exception download_video raised, or None
  heads, gets,          \* HEAD / GET requests this call has issued
  admitted,             \* limiter admissions this call has consumed
  written,              \* bytes this call has written to the local file
  ndirect,              \* direct download_video calls made so far
  \* ---- rate limiter (class-level decorator state)
  num_calls,            \* attempts counted in the current period
  elapsed,              \* clock() - last_reset, capped at RATE_LIMIT_PERIOD
  sleep_for,            \* period_remaining carried by RateLimitException
  ages,                 \* seconds since each admission of the last period
  \* ---- FrameExtractor.extract_frames_at_percentages
  epc,                  \* position inside extract_frames_at_percentages
  video_file,           \* what video_path names on disk
  percentages,          \* the percentages argument, in 1/PctUnits
  video_clip,           \* the local `clip`: None, an open handle, a closed one
  opens,                \* VideoFileClip handles this call has opened
  duration,             \* clip.duration in seconds
  fi,                   \* `i` of the loop: 1-based index into percentages
  extracted_frames,     \* the list the loop appends to
  requested,            \* timestamps this call has passed to clip.get_frame
  frame_fault,          \* what the last clip.get_frame / conversion produced
  eret,                 \* the list the call returned
  eerr,                 \* the exception the call raised, or None
  \* ---- ContentModerator
  mpc,                  \* position of the moderator's client
  inappropriate_content,\* category -> list of words
  text_embeddings_cache,\* text -> the embedding stored for it
  similarity_threshold, \* in 1/SimUnits
  image_embedding,      \* argument of check_image_content
  verdict,              \* the dictionary check_image_content returned
  text,                 \* argument of get_text_embedding
  embedding,            \* the vector get_text_embedding returned
  model_calls,          \* text -> calls of the CLIP model made for it
  arg_category, arg_word, \* arguments of add_inappropriate_word
  arg_threshold,        \* argument of set_similarity_threshold
  merr,                 \* the exception the moderator raised, or None
  \* ---- VideoProcessor.health_check
  hpc,                  \* position inside health_check
  components,           \* what the checks of this call find
  health,               \* the `health` dictionary
  \* ---- VideoDownloader instances
  instance,             \* the VideoDownloader the current call goes through
  admissions_of,        \* instance -> admissions its finished calls were given
  \* ---- VideoProcessor.process_clip_by_id
  by_id                 \* process_single_clip was called by process_clip_by_id

pvars == <<ppc, nclips, idx, clip, result, results, total_processed,
           successful_processed, failed_processed, frames, saved>>
dvars == <<dpc, durl, dpath, total_downloaded, expected_size, reported, body_len,
           derr, heads, gets, admitted, written>>
lvars == <<num_calls, elapsed, sleep_for, ages>>
evars == <<epc, video_file, percentages, video_clip, opens, duration, fi,
           extracted_frames, requested, frame_fault, eret, eerr>>
mvars == <<mpc, inappropriate_content, text_embeddings_cache, similarity_threshold,
           image_embedding, verdict, text, embedding, model_calls,
           arg_category, arg_word, arg_threshold, merr>>
\* the components the download pipeline does not use
hvars == <<hpc, components, health>>
ivars == <<instance, admissions_of>>
ovars == <<hvars, ivars, by_id>>
xvars == <<evars, mvars, ovars>>
vars == <<pvars, fs, dvars, ndirect, lvars, xvars>>

(***************************************************************************)
(* VideoDownloader.validate_url                                            *)
(***************************************************************************)
\* validators.url(url): is the string a well-formed URL
validators_url(url) == url \in {"ftp://h/v.mov", "http://h/v.mov", "https://h/v.mov"}

\* urlparse(url).scheme
urlparse_scheme(url) ==
  CASE url \in {"http://", "http://h/v.mov"} -> "http"
    [] url = "https://h/v.mov" -> "https"
    [] url = "ftp://h/v.mov" -> "ftp"
    [] OTHER -> ""

\* variant: only the scheme is looked at
validate_url_scheme_only(url) == urlparse_scheme(url) \in {"http", "https"}

validate_url(url) ==
  IF ~validators_url(url) THEN FALSE
  ELSE urlparse_scheme(url) \in {"http", "https"}

(***************************************************************************)
(* File system helpers                                                     *)
(***************************************************************************)
exists(f, path) == f[path] # NoFile
unlink(f, path) == [f EXCEPT ![path] = NoFile]

\* variant: the finally clause leaves the file alone
DownloadFinallyKeeps(f, path, total) == f

\* finally clause of download_video: remove the file when nothing was counted
DownloadFinally(f, path, total) ==
  IF exists(f, path) /\ total = 0 THEN unlink(f, path) ELSE f

(***************************************************************************)
(* Exceptions download_video raises, as "type: message"                     *)
(***************************************************************************)
ExcInvalidURL == "ValueError: Invalid URL"
ExcPreflightSize == "ValueError: File size exceeds maximum allowed"
ExcStreamSize == "ValueError: Download exceeded maximum file size"
ExcContentLength == "ValueError: invalid literal for int()"
ExcTimeout == "RequestException: Download timeout"
ExcNetwork == "RequestException: HTTP/Network error"
ExcIO == "IOError: File writing error"
Exceptions == {ExcInvalidURL, ExcPreflightSize, ExcStreamSize, ExcContentLength,
               ExcTimeout, ExcNetwork, ExcIO}

\* the class of the exception object the caller catches: the except clauses
\* of download_video re-raise Timeout and RequestException alike as a new
\* requests.RequestException, IOError as IOError; ValueError passes unchanged
exc_type(e) ==
  CASE e \in {ExcInvalidURL, ExcPreflightSize, ExcStreamSize, ExcContentLength}
         -> "ValueError"
    [] e \in {ExcTimeout, ExcNetwork} -> "RequestException"
    [] e = ExcIO -> "IOError"
    [] OTHER -> "Exception"

(***************************************************************************)
(* Rate limiter: @sleep_and_retry @limits(calls=CALLS, period=PERIOD)      *)
(***************************************************************************)
\* RateLimitDecorator.__period_remaining
period_remaining(el) == RATE_LIMIT_PERIOD - el

\* variant: the wrapper admits one call more than CALLS
limits_attempt_one_more(nc, el) ==
  LET reset == period_remaining(el) <= 0
      n == (IF reset THEN 0 ELSE nc) + 1
  IN [num_calls |-> n,
      elapsed |-> IF reset THEN 0 ELSE el,
      admit |-> ~(n > CALLS + 1),
      remaining |-> period_remaining(el)]

\* one pass through the limits wrapper: the counter and window after it, and
\* whether the wrapped request is admitted or RateLimitException is raised
limits_attempt(nc, el) ==
  LET reset == period_remaining(el) <= 0
      n == (IF reset THEN 0 ELSE nc) + 1
  IN [num_calls |-> n,
      elapsed |-> IF reset THEN 0 ELSE el,
      admit |-> ~(n > CALLS),
      remaining |-> period_remaining(el)]

\* the clock moves on by d seconds: admissions older than the period leave
AgeBy(s, d) == SelectSeq([i \in 1..Len(s) |-> s[i] + d], LAMBDA a : a < RATE_LIMIT_PERIOD)

\* time.sleep(exception.period_remaining) in sleep_and_retry
sleep_and_retry_sleep(el, secs) == Min(RATE_LIMIT_PERIOD, el + secs)

\* variant: without sleep_and_retry the RateLimitException reaches the caller
ExcRateLimit == "RateLimitException: too many calls"
RefusedRaises(nap, remaining) ==
  /\ dpc' = "raised"
  /\ derr' = ExcRateLimit
  /\ UNCHANGED sleep_for

\* sleep_and_retry catches RateLimitException: the request will sleep for the
\* remaining period at position `nap` and be tried again
Refused(nap, remaining) ==
  /\ dpc' = nap
  /\ sleep_for' = remaining
  /\ UNCHANGED derr

\* _rate_limited_request entered at position `at`: admitted requests go out
\* (position `sent`), refused ones sleep (position `nap`) and come back
Gate(at, sent, nap, isHead) ==
  /\ dpc = at
  /\ LET a == limits_attempt(num_calls, elapsed) IN
       /\ num_calls' = a.num_calls
       /\ elapsed' = a.elapsed
       /\ IF a.admit
            THEN /\ dpc' = sent
                 /\ ages' = Append(ages, 0)
                 /\ admitted' = admitted + 1
                 /\ heads' = IF isHead THEN heads + 1 ELSE heads
                 /\ gets' = IF isHead THEN gets ELSE gets + 1
                 /\ UNCHANGED <<sleep_for, derr>>
            ELSE /\ Refused(nap, a.remaining)
                 /\ UNCHANGED <<ages, admitted, heads, gets>>
  /\ UNCHANGED <<pvars, fs, ndirect, xvars, durl, dpath, total_downloaded, expected_size,
                 reported, body_len, written>>

Sleep(nap, at) ==
  /\ dpc = nap
  /\ elapsed' = sleep_and_retry_sleep(elapsed, sleep_for)
  /\ ages' = AgeBy(ages, sleep_for)
  /\ dpc' = at
  /\ sleep_for' = 0
  /\ UNCHANGED <<pvars, fs, ndirect, xvars, durl, dpath, total_downloaded, expected_size,
                 reported, body_len, derr, heads, gets, admitted, written, num_calls>>

HeadGate == Gate("head_gate", "head_sent", "head_sleep", TRUE)
HeadSleep == Sleep("head_sleep", "head_gate")
GetGate == Gate("get_gate", "get_sent", "get_sleep", FALSE)
GetSleep == Sleep("get_sleep", "get_gate")

\* Wall-clock time passing. The clock is read only inside the limiter, so time
\* that passes elsewhere is accounted for when the next request reaches it.
Tick ==
  /\ dpc \in {"head_gate", "get_gate"}
  /\ elapsed < RATE_LIMIT_PERIOD \/ ages # <<>>
  /\ elapsed' = Min(RATE_LIMIT_PERIOD, elapsed + TickSeconds)
  /\ ages' = AgeBy(ages, TickSeconds)
  /\ UNCHANGED <<pvars, fs, dvars, ndirect, xvars, num_calls, sleep_for>>

(***************************************************************************)
(* VideoDownloader.download_video                                          *)
(***************************************************************************)
\* entry of download_video(url, local_path)
DownloadEnter(url, path) ==
  /\ dpc' = "validate"
  /\ durl' = url
  /\ dpath' = path
  /\ total_downloaded' = 0
  /\ expected_size' = NoSize
  /\ reported' = NoSize
  /\ body_len' = 0
  /\ derr' = None
  /\ heads' = 0
  /\ gets' = 0
  /\ admitted' = 0
  /\ written' = 0

\* download_video has handed its outcome to the caller: its frame is gone
DownloadLeave ==
  /\ dpc' = "idle"
  /\ durl' = ""
  /\ dpath' = "c1"
  /\ total_downloaded' = 0
  /\ expected_size' = NoSize
  /\ reported' = NoSize
  /\ body_len' = 0
  /\ derr' = None
  /\ heads' = 0
  /\ gets' = 0
  /\ admitted' = 0
  /\ written' = 0

\* lines 133-134: an invalid URL raises before anything else happens
Validate ==
  /\ dpc = "validate"
  /\ IF ~validate_url(durl)
       THEN dpc' = "raised" /\ derr' = ExcInvalidURL
       ELSE dpc' = "head_gate" /\ UNCHANGED derr
  /\ UNCHANGED <<pvars, fs, ndirect, xvars, lvars, durl, dpath, total_downloaded,
                 expected_size, reported, body_len, heads, gets, admitted, written>>

\* replies to the HEAD request: a failed request (network error, timeout, HTTP
\* error status), no Content-Length header, one that is no number, or a number
HeadReplies ==
  {[kind |-> k, length |-> 0] : k \in {"error", "no-length", "bad-length"}}
    \cup {[kind |-> "length", length |-> n] : n \in ContentLengths}

\* variant: the except clause catches every exception, the size error too
check_file_size_swallows(reply) ==
  IF reply.kind = "length" /\ reply.length <= max_file_size
    THEN [raise |-> None, size |-> reply.length]
    ELSE [raise |-> None, size |-> NoSize]

\* variant: a failed HEAD request fails the download
check_file_size_propagates(reply) ==
  CASE reply.kind = "error" -> [raise |-> ExcNetwork, size |-> NoSize]
    [] reply.kind = "no-length" -> [raise |-> None, size |-> NoSize]
    [] reply.kind = "bad-length" -> [raise |-> ExcContentLength, size |-> NoSize]
    [] OTHER -> IF reply.length > max_file_size
                  THEN [raise |-> ExcPreflightSize, size |-> NoSize]
                  ELSE [raise |-> None, size |-> reply.length]

\* _check_file_size after the HEAD reply: the exception it lets out, or the
\* size it returns
check_file_size(reply) ==
  CASE reply.kind = "error" -> [raise |-> None, size |-> NoSize]
    [] reply.kind = "no-length" -> [raise |-> None, size |-> NoSize]
    [] reply.kind = "bad-length" -> [raise |-> ExcContentLength, size |-> NoSize]
    [] OTHER -> IF reply.length > max_file_size
                  THEN [raise |-> ExcPreflightSize, size |-> NoSize]
                  ELSE [raise |-> None, size |-> reply.length]

\* lines 140-146: the pre-flight check, outside the try block
HeadResponse ==
  /\ dpc = "head_sent"
  /\ \E reply \in HeadReplies :
       LET r == check_file_size(reply) IN
         /\ reported' = CASE reply.kind = "length" -> reply.length
                           [] reply.kind = "error" -> HeadFailed
                           [] OTHER -> NoSize
         /\ IF r.raise # None
              THEN dpc' = "raised" /\ derr' = r.raise /\ UNCHANGED expected_size
              ELSE dpc' = "get_gate" /\ expected_size' = r.size /\ UNCHANGED derr
  /\ total_downloaded' = 0
  /\ UNCHANGED <<pvars, fs, ndirect, xvars, lvars, durl, dpath, body_len, heads, gets,
                 admitted, written>>

\* an exception inside the try block: the except clause that re-raises it and
\* the finally clause
RaiseInTry(exc, f, total) ==
  /\ dpc' = "raised"
  /\ derr' = exc
  /\ fs' = DownloadFinally(f, dpath, total)

\* line 150: the reply to the GET request
GetResponse ==
  /\ dpc = "get_sent"
  /\ \/ \E n \in BodyLens :
          /\ body_len' = n
          /\ dpc' = "open"
          /\ UNCHANGED <<derr, fs>>
     \/ \E exc \in {ExcTimeout, ExcNetwork} :
          /\ RaiseInTry(exc, fs, total_downloaded)
          /\ UNCHANGED body_len
  /\ UNCHANGED <<pvars, ndirect, xvars, lvars, durl, dpath, total_downloaded, expected_size, reported,
                 heads, gets, admitted, written>>

\* line 152: open(local_path, 'wb') creates or truncates the file, or fails
OpenFile ==
  /\ dpc = "open"
  /\ \/ /\ fs' = [fs EXCEPT ![dpath] = 0]
        /\ dpc' = "stream"
        /\ UNCHANGED derr
     \/ RaiseInTry(ExcIO, fs, total_downloaded)
  /\ UNCHANGED <<pvars, ndirect, xvars, lvars, durl, dpath, total_downloaded, expected_size, reported,
                 body_len, heads, gets, admitted, written>>

\* variant: the size check inside the loop is missing
write_chunk_unchecked(f, path, total, k) ==
  [fs |-> [f EXCEPT ![path] = @ + k],
   total |-> total + k,
   exceeded |-> FALSE]

\* lines 155-162 for one non-empty chunk of k bytes: write, count, then check
write_chunk(f, path, total, k) ==
  [fs |-> [f EXCEPT ![path] = @ + k],
   total |-> total + k,
   exceeded |-> total + k > max_file_size]

StreamChunk ==
  /\ dpc = "stream"
  /\ \E k \in 1..Min(ChunkBound, body_len - total_downloaded) :
       \/ LET w == write_chunk(fs, dpath, total_downloaded, k) IN
            /\ total_downloaded' = w.total
            /\ written' = written + (w.fs[dpath] - fs[dpath])
            /\ IF w.exceeded
                 THEN RaiseInTry(ExcStreamSize, w.fs, w.total)
                 ELSE fs' = w.fs /\ UNCHANGED <<dpc, derr>>
       \/ /\ RaiseInTry(ExcIO, fs, total_downloaded)
          /\ UNCHANGED <<total_downloaded, written>>
  /\ UNCHANGED <<pvars, ndirect, xvars, lvars, durl, dpath, expected_size, reported, body_len, heads,
                 gets, admitted>>

\* the connection fails or times out before the body is complete
StreamError ==
  /\ dpc = "stream"
  /\ total_downloaded < body_len
  /\ \E exc \in {ExcTimeout, ExcNetwork} : RaiseInTry(exc, fs, total_downloaded)
  /\ UNCHANGED <<pvars, ndirect, xvars, lvars, durl, dpath, total_downloaded, expected_size, reported,
                 body_len, heads, gets, admitted, written>>

\* lines 168-175 and the finally clause: the body is complete, return True
StreamEnd ==
  /\ dpc = "stream"
  /\ total_downloaded = body_len
  /\ dpc' = "returned"
  /\ fs' = DownloadFinally(fs, dpath, total_downloaded)
  /\ UNCHANGED <<pvars, ndirect, xvars, lvars, durl, dpath, total_downloaded, expected_size, reported,
                 body_len, derr, heads, gets, admitted, written>>

DownloaderNext ==
  \/ Validate \/ HeadGate \/ HeadSleep \/ HeadResponse
  \/ GetGate \/ GetSleep \/ GetResponse
  \/ OpenFile \/ StreamChunk \/ StreamError \/ StreamEnd

(***************************************************************************)
(* A direct client of VideoDownloader                                      *)
(***************************************************************************)
\* local_path values the client passes
ClientPaths == {"c1"}

ClientDownload ==
  /\ ppc = "idle"
  /\ dpc = "idle"
  /\ ndirect < MaxDirect
  /\ ndirect' = ndirect + 1
  /\ \E url \in URLS, path \in ClientPaths : DownloadEnter(url, path)
  /\ UNCHANGED <<pvars, fs, lvars, xvars>>

ClientReturn ==
  /\ ppc = "idle"
  /\ dpc \in {"returned", "raised"}
  /\ DownloadLeave
  /\ UNCHANGED <<pvars, fs, ndirect, xvars, lvars>>

(***************************************************************************)
(* VideoProcessor                                                          *)
(***************************************************************************)
Clips == [id : ClipIds, clip_path : URLS]

\* ProcessingResult.__init__
ProcessingResult(id) ==
  [clip_id |-> id, success |-> FALSE, frame_paths |-> <<>>,
   error_message |-> None, frames_extracted |-> 0]

\* _create_temp_path: temp_dir/{clip_id}.mov, named by the clip id
create_temp_path(id) == id

\* variant: the finally clause leaves the file
ProcessorFinallyKeeps(f, path) == f

\* finally clause of process_single_clip
ProcessorFinally(f, path) == IF exists(f, path) THEN unlink(f, path) ELSE f

ExcMissingFile == "FileNotFoundError: Video file not found"
ExcEmptyFile == "ValueError: Video file is empty"
ExcDuration == "ValueError: Invalid video duration"
ExcFrame == "RuntimeError: Frame extraction failed"
ExcSave == "OSError: cannot write frame"
MsgNoClipPath == "No clip_path found in clip data"
MsgDownloadFailed == "Video download failed"

\* what extract_frames_at_percentages can do with the file at path: the
\* exceptions of validate_video_file, else what the decoder makes of the data
extract_outcomes(f, path) ==
  IF ~exists(f, path) THEN {ExcMissingFile}
  ELSE IF f[path] = 0 THEN {ExcEmptyFile}
  ELSE {"frames", ExcDuration, ExcFrame}

\* variant: the frames are numbered from 0
frame_path_from_zero(id, i) == <<id, i - 1>>

\* frame_path of the i-th frame: {clip_id}_frame_{i}.jpg
frame_path(id, i) == <<id, i>>

\* variant: a clip without clip_path is handed to the downloader
missing_url_accepted(video_url) == FALSE

\* line 125, `not video_url`: clip_path is missing or the empty string
missing_url(video_url) == video_url = ""

\* variant: every failure is reported as a failed download
FailedAsDownload(r, msg) == [r EXCEPT !.error_message = MsgDownloadFailed]

\* variant: a failure leaves the result without a message
FailedSilently(r, msg) == r

\* except clause and finally clause of process_single_clip
Failed(r, msg) == [r EXCEPT !.error_message = msg]

\* process_all_clips up to the loop: list the clips, reset the statistics
ProcessAllClips ==
  /\ ppc = "idle"
  /\ dpc = "idle"
  /\ \/ /\ ppc' = "batch_raised"
        /\ UNCHANGED <<nclips, idx, results, total_processed, successful_processed,
                       failed_processed>>
     \/ /\ ppc' = "batch_done"
        /\ results' = <<>>
        /\ nclips' = 0
        /\ UNCHANGED <<idx, total_processed, successful_processed, failed_processed>>
     \/ \E n \in 1..MaxClips :
          /\ nclips' = n
          /\ results' = <<>>
          /\ total_processed' = 0
          /\ successful_processed' = 0
          /\ failed_processed' = 0
          /\ idx' = 1
          /\ ppc' = "loop"
  /\ UNCHANGED <<clip, result, frames, saved, fs, dvars, ndirect, xvars, lvars>>

\* lines 213-217: the loop takes the next clip of the list. The list is fixed
\* by fetch_all_clips; a record is drawn here, where the code first reads it.
LoopHead ==
  /\ ppc = "loop"
  /\ idx <= nclips
  /\ \E c \in Clips : clip' = c
  /\ ppc' = "single_start"
  /\ UNCHANGED <<nclips, idx, result, results, total_processed,
                 successful_processed, failed_processed, frames, saved, fs,
                 dvars, ndirect, xvars, lvars>>

\* lines 234-239: the list is exhausted, return results
LoopExit ==
  /\ ppc = "loop"
  /\ idx > nclips
  /\ ppc' = "batch_done"
  /\ UNCHANGED <<nclips, idx, clip, result, results, total_processed,
                 successful_processed, failed_processed, frames, saved, fs,
                 dvars, ndirect, xvars, lvars>>

\* lines 118-141: build the result, refuse a clip without clip_path, else
\* call download_video(video_url, temp_file)
SingleStart ==
  /\ ppc = "single_start"
  /\ IF missing_url(clip.clip_path)
       THEN /\ result' = Failed(ProcessingResult(clip.id), MsgNoClipPath)
            /\ ppc' = "single_returned"
            /\ UNCHANGED dvars
       ELSE /\ result' = ProcessingResult(clip.id)
            /\ ppc' = "download"
            /\ DownloadEnter(clip.clip_path, create_temp_path(clip.id))
  /\ UNCHANGED <<nclips, idx, clip, results, total_processed,
                 successful_processed, failed_processed, frames, saved, fs,
                 ndirect, xvars, lvars>>

\* lines 143-145: download_video returned
DownloadReturned ==
  /\ ppc = "download"
  /\ dpc = "returned"
  /\ DownloadLeave
  /\ LET download_success == TRUE IN
       IF ~download_success
         THEN /\ result' = Failed(result, MsgDownloadFailed)
              /\ fs' = ProcessorFinally(fs, create_temp_path(clip.id))
              /\ ppc' = "single_returned"
         ELSE /\ ppc' = "extract"
              /\ UNCHANGED <<result, fs>>
  /\ UNCHANGED <<nclips, idx, clip, results, total_processed,
                 successful_processed, failed_processed, frames, saved, ndirect, xvars,
                 lvars>>

\* variant: no except clause, the exception leaves process_single_clip
ExceptPropagates(msg) ==
  /\ result' = result
  /\ fs' = ProcessorFinally(fs, create_temp_path(clip.id))
  /\ ppc' = "batch_raised"

\* a raise inside the try block of process_single_clip: lines 174-188
ExceptFinally(msg) ==
  /\ result' = Failed(result, msg)
  /\ fs' = ProcessorFinally(fs, create_temp_path(clip.id))
  /\ ppc' = "single_returned"

\* download_video raised
DownloadRaised ==
  /\ ppc = "download"
  /\ dpc = "raised"
  /\ DownloadLeave
  /\ ExceptFinally(derr)
  /\ UNCHANGED <<nclips, idx, clip, results, total_processed,
                 successful_processed, failed_processed, frames, saved, ndirect, xvars,
                 lvars>>

\* lines 147-152: extract the frames of the downloaded file
Extract ==
  /\ ppc = "extract"
  /\ \E o \in extract_outcomes(fs, create_temp_path(clip.id)) :
       IF o = "frames"
         THEN /\ frames' = NFrames
              /\ ppc' = "save"
              /\ UNCHANGED <<result, fs>>
         ELSE /\ ExceptFinally(o)
              /\ UNCHANGED frames
  /\ UNCHANGED <<nclips, idx, clip, results, total_processed,
                 successful_processed, failed_processed, saved, dvars, ndirect, xvars,
                 lvars>>

\* lines 154-172 and the finally clause: save the frames one by one; k of them
\* are on disk when the loop ends, by completion or by image.save raising
SaveFrames ==
  /\ ppc = "save"
  /\ \E k \in 0..frames :
       /\ saved' = {frame_path(clip.id, i) : i \in 1..k}
       /\ IF k = frames
            THEN /\ result' = [result EXCEPT
                                 !.success = TRUE,
                                 !.frame_paths = [i \in 1..frames |-> frame_path(clip.id, i)],
                                 !.frames_extracted = frames]
                 /\ fs' = ProcessorFinally(fs, create_temp_path(clip.id))
                 /\ ppc' = "single_returned"
            ELSE ExceptFinally(ExcSave)
  /\ UNCHANGED <<nclips, idx, clip, results, total_processed,
                 successful_processed, failed_processed, frames, dvars, ndirect, xvars,
                 lvars>>

\* the locals of the iteration that ended are dead: the next one rebinds them
NoClip == [id |-> "c1", clip_path |-> ""]
ClearLocals ==
  /\ clip' = NoClip
  /\ result' = ProcessingResult("c1")
  /\ frames' = 0
  /\ saved' = {}

\* variant: successful_processed is incremented for every clip
update_statistics_counts_all(total, successful, failed, success) ==
  [total |-> total + 1,
   successful |-> successful + 1,
   failed |-> IF success THEN failed ELSE failed + 1]

\* lines 221-225: the counters after a clip whose result has this success flag
update_statistics(total, successful, failed, success) ==
  [total |-> total + 1,
   successful |-> IF success THEN successful + 1 ELSE successful,
   failed |-> IF success THEN failed ELSE failed + 1]

\* lines 218-225: store the result handed back and update the statistics
UpdateStats ==
  /\ ppc = "single_returned"
  /\ ~by_id
  /\ results' = (clip.id :> result.success) @@ results
  /\ LET st == update_statistics(total_processed, successful_processed,
                                  failed_processed, result.success) IN
       /\ total_processed' = st.total
       /\ successful_processed' = st.successful
       /\ failed_processed' = st.failed
  /\ idx' = idx + 1
  /\ ppc' = "loop"
  /\ ClearLocals
  /\ UNCHANGED <<nclips, fs, dvars, ndirect, xvars, lvars>>

\* get_processing_statistics: the counters, and the success rate in tenths of
\* a percent, round(successful / total * 100, 1)
get_processing_statistics(total, successful, failed) ==
  [total_processed |-> total,
   successful_processed |-> successful,
   failed_processed |-> failed,
   success_rate_percent |->
     IF total > 0 THEN (2000 * successful + total) \div (2 * total) ELSE 0]

\* process_all_clips has returned or raised to its caller: its locals are
\* gone, the counters stay on the processor for the next call
BatchReturn ==
  /\ ppc \in {"batch_done", "batch_raised"}
  /\ ppc' = "idle"
  /\ nclips' = 0
  /\ idx' = 0
  /\ results' = <<>>
  /\ UNCHANGED <<clip, result, total_processed, successful_processed,
                 failed_processed, frames, saved, fs, dvars, ndirect, xvars, lvars>>

\* variant: process_clip_by_id counts the clip as process_all_clips does
by_id_statistics_counted(total, successful, failed, success) ==
  update_statistics(total, successful, failed, success)

\* line 262, return self.process_single_clip(clip): the counters after it
by_id_statistics(total, successful, failed, success) ==
  [total |-> total, successful |-> successful, failed |-> failed]

\* process_clip_by_id, lines 253-266, up to the call of process_single_clip:
\* get_clip_by_id raises, finds no clip, or returns the clip's record
ProcessClipById ==
  /\ ppc = "idle"
  /\ dpc = "idle"
  /\ by_id' = TRUE
  /\ \/ ppc' = "by_id_raised" /\ UNCHANGED clip
     \/ ppc' = "by_id_none" /\ UNCHANGED clip
     \/ \E c \in Clips : clip' = c /\ ppc' = "single_start"
  /\ UNCHANGED <<nclips, idx, result, results, total_processed, successful_processed,
                 failed_processed, frames, saved, fs, dvars, ndirect, lvars,
                 evars, mvars, hvars, ivars>>

\* line 262: process_single_clip has handed its result to process_clip_by_id,
\* which returns it
ByIdReturn ==
  /\ ppc = "single_returned"
  /\ by_id
  /\ ppc' = "by_id_returned"
  /\ LET st == by_id_statistics(total_processed, successful_processed,
                                 failed_processed, result.success) IN
       /\ total_processed' = st.total
       /\ successful_processed' = st.successful
       /\ failed_processed' = st.failed
  /\ UNCHANGED <<nclips, idx, clip, result, results, frames, saved, fs, dvars,
                 ndirect, lvars, xvars>>

\* the caller of process_clip_by_id has its result, None or exception
ByIdLeave ==
  /\ ppc \in {"by_id_returned", "by_id_none", "by_id_raised"}
  /\ ppc' = "idle"
  /\ by_id' = FALSE
  /\ ClearLocals
  /\ UNCHANGED <<nclips, idx, results, total_processed, successful_processed,
                 failed_processed, fs, dvars, ndirect, lvars,
                 evars, mvars, hvars, ivars>>

ProcessorNext ==
  \/ ProcessAllClips \/ LoopHead \/ LoopExit \/ SingleStart
  \/ DownloadReturned \/ DownloadRaised \/ Extract \/ SaveFrames \/ UpdateStats

(***************************************************************************)
(* FrameExtractor.extract_frames_at_percentages (frame_extractor_class.py) *)
(***************************************************************************)
\* percentages and timestamps are counted in 1/PctUnits: PctUnits is 1.0
PctUnits == 4
\* longest percentages list a caller passes
MaxPercentages == 3
\* longest clip.duration, in seconds
MaxDuration == 2

\* values a caller may put in the list: the range [0.0, 1.0] and one value
\* past either end
PctValues == -1..(PctUnits + 1)
RECURSIVE ListsUpTo(_, _)
ListsUpTo(S, n) ==
  IF n = 0 THEN {<<>>}
  ELSE LET shorter == ListsUpTo(S, n - 1) IN
         shorter \cup {Append(l, v) : l \in {x \in shorter : Len(x) = n - 1}, v \in S}
PercentageLists == ListsUpTo(PctValues, MaxPercentages)
\* config.DEFAULT_FRAME_PERCENTAGES = [0.25, 0.5, 0.75]
DEFAULT_FRAME_PERCENTAGES == <<PctUnits \div 4, PctUnits \div 2, (3 * PctUnits) \div 4>>
\* what video_path may name: nothing, a directory, an empty file, a file with data
VideoFiles == {"missing", "directory", "empty", "video"}
\* clip.duration of an opened video
Durations == -1..MaxDuration

ExcNotFile == "ValueError: Path is not a file"
ExcNoPercentages == "ValueError: At least one percentage must be specified"
ExcPercentageRange == "ValueError: Percentage must be between 0.0 and 1.0"
ExcOpenVideo == "OSError: could not open video"
ExtractorExceptions == {ExcMissingFile, ExcNotFile, ExcEmptyFile, ExcNoPercentages,
                        ExcPercentageRange, ExcOpenVideo, ExcDuration, ExcFrame}

\* validate_video_file: the exception it raises, or None
validate_video_file(file) ==
  CASE file = "missing" -> ExcMissingFile
    [] file = "directory" -> ExcNotFile
    [] file = "empty" -> ExcEmptyFile
    [] OTHER -> None

\* variant: only emptiness of the list is checked
validate_percentages_nonempty(P) ==
  IF P = <<>> THEN ExcNoPercentages ELSE None

\* validate_percentages: the exception it raises, or None
validate_percentages(P) ==
  IF P = <<>> THEN ExcNoPercentages
  ELSE IF \E i \in 1..Len(P) : ~(0 <= P[i] /\ P[i] <= PctUnits) THEN ExcPercentageRange
  ELSE None

\* line 119: timestamp = duration * percentage
timestamp(d, percentage) == d * percentage

\* clip.get_frame(t): the pixel array of the video at time t
get_frame(t) == [frame_at |-> t]
\* Image.fromarray(np.uint8(frame_array))
Image_fromarray(frame_array) == [image_of |-> frame_array.frame_at]

\* what one pass through lines 124-135 can meet: a usable frame, a None array,
\* an array of size 0, an image with a side of 0, an exception from the decoder
\* or from the conversion
FrameOutcomes == {"frame", "null", "empty", "zero-area", "decoder error"}

\* variant: the frame is put at the head of the list
prepend_frame(frames_so_far, image) == <<image>> \o frames_so_far

\* line 137: extracted_frames.append(image)
append_frame(frames_so_far, image) == Append(frames_so_far, image)

\* variant: the finally clause does not close the clip
ExtractorFinallyLeaves(handle) == handle

\* finally clause (lines 155-162): close the clip if one was opened
ExtractorFinally(handle) == IF handle # None THEN "closed" ELSE handle

\* an exception inside the try block: re-raised by the outer except clause
\* after the finally clause has run
ExtractorRaise(exc) ==
  /\ epc' = "raised"
  /\ eerr' = exc
  /\ video_clip' = ExtractorFinally(video_clip)

\* a caller calls extract_frames_at_percentages(video_path, percentages);
\* percentages=None stands for a copy of the default list (lines 93-94)
ExtractCall ==
  /\ epc = "idle"
  /\ video_file' \in VideoFiles
  /\ \/ percentages' = DEFAULT_FRAME_PERCENTAGES
     \/ percentages' \in PercentageLists
  /\ epc' = "validate"
  /\ UNCHANGED <<video_clip, opens, duration, fi, extracted_frames, requested,
                 frame_fault, eret, eerr>>
  /\ UNCHANGED <<pvars, fs, dvars, ndirect, lvars, mvars, ovars>>

\* lines 97-105: validate the file, then the percentages; both come before
\* the try block, so the finally clause does not run when they raise
ValidateInputs ==
  /\ epc = "validate"
  /\ LET bad_file == validate_video_file(video_file)
         bad_list == validate_percentages(percentages) IN
       IF bad_file # None THEN epc' = "raised" /\ eerr' = bad_file
       ELSE IF bad_list # None THEN epc' = "raised" /\ eerr' = bad_list
       ELSE epc' = "open" /\ UNCHANGED eerr
  /\ UNCHANGED <<video_file, percentages, video_clip, opens, duration, fi,
                 extracted_frames, requested, frame_fault, eret>>
  /\ UNCHANGED <<pvars, fs, dvars, ndirect, lvars, mvars, ovars>>

\* lines 109-110: VideoFileClip(str(video_path)) opens the video or raises,
\* in which case `clip` is still None
OpenVideo ==
  /\ epc = "open"
  /\ \/ /\ video_clip' = "open"
        /\ opens' = opens + 1
        /\ duration' \in Durations
        /\ epc' = "duration"
        /\ UNCHANGED eerr
     \/ /\ ExtractorRaise(ExcOpenVideo)
        /\ UNCHANGED <<opens, duration>>
  /\ UNCHANGED <<video_file, percentages, fi, extracted_frames, requested,
                 frame_fault, eret>>
  /\ UNCHANGED <<pvars, fs, dvars, ndirect, lvars, mvars, ovars>>

\* lines 112-117: refuse a duration that is not positive, else enter the loop
CheckDuration ==
  /\ epc = "duration"
  /\ IF duration <= 0
       THEN ExtractorRaise(ExcDuration) /\ UNCHANGED fi
       ELSE epc' = "frame" /\ fi' = 1 /\ UNCHANGED <<eerr, video_clip>>
  /\ UNCHANGED <<video_file, percentages, opens, duration, extracted_frames,
                 requested, frame_fault, eret>>
  /\ UNCHANGED <<pvars, fs, dvars, ndirect, lvars, mvars, ovars>>

\* variant: a frame that cannot be used is skipped and the loop goes on
FrameSkipped(percentage) ==
  /\ fi' = fi + 1
  /\ UNCHANGED <<epc, eerr, video_clip>>

\* lines 127-128, 134-135 and 145-147: a frame that cannot be used raises
\* RuntimeError("Frame extraction failed at ..."), which leaves the call
FrameFailed(percentage) ==
  /\ ExtractorRaise(ExcFrame)
  /\ UNCHANGED fi

\* lines 118-147: one pass of the loop
NextFrame ==
  /\ epc = "frame"
  /\ fi <= Len(percentages)
  /\ LET t == timestamp(duration, percentages[fi]) IN
       /\ requested' = Append(requested, t)
       /\ \E outcome \in FrameOutcomes :
            /\ frame_fault' = outcome
            /\ IF outcome = "frame"
                 THEN /\ extracted_frames' =
                           append_frame(extracted_frames, Image_fromarray(get_frame(t)))
                      /\ fi' = fi + 1
                      /\ UNCHANGED <<epc, eerr, video_clip>>
                 ELSE /\ FrameFailed(percentages[fi])
                      /\ UNCHANGED extracted_frames
  /\ UNCHANGED <<video_file, percentages, opens, duration, eret>>
  /\ UNCHANGED <<pvars, fs, dvars, ndirect, lvars, mvars, ovars>>

\* line 150 and the finally clause: the list is exhausted, return the frames
LoopEnd ==
  /\ epc = "frame"
  /\ fi > Len(percentages)
  /\ eret' = extracted_frames
  /\ video_clip' = ExtractorFinally(video_clip)
  /\ epc' = "returned"
  /\ UNCHANGED <<video_file, percentages, opens, duration, fi, extracted_frames,
                 requested, frame_fault, eerr>>
  /\ UNCHANGED <<pvars, fs, dvars, ndirect, lvars, mvars, ovars>>

\* the extractor before and between calls
InitExtractor ==
  /\ epc = "idle"
  /\ video_file = "missing"
  /\ percentages = <<>>
  /\ video_clip = None
  /\ opens = 0
  /\ duration = 0
  /\ fi = 0
  /\ extracted_frames = <<>>
  /\ requested = <<>>
  /\ frame_fault = "none"
  /\ eret = <<>>
  /\ eerr = None

\* the caller has the outcome of the call: the frame of the call is gone
ExtractLeave ==
  /\ epc \in {"returned", "raised"}
  /\ epc' = "idle"
  /\ video_file' = "missing"
  /\ percentages' = <<>>
  /\ video_clip' = None
  /\ opens' = 0
  /\ duration' = 0
  /\ fi' = 0
  /\ extracted_frames' = <<>>
  /\ requested' = <<>>
  /\ frame_fault' = "none"
  /\ eret' = <<>>
  /\ eerr' = None
  /\ UNCHANGED <<pvars, fs, dvars, ndirect, lvars, mvars, ovars>>

ExtractorNext ==
  \/ ExtractCall \/ ValidateInputs \/ OpenVideo \/ CheckDuration
  \/ NextFrame \/ LoopEnd \/ ExtractLeave

(***************************************************************************)
(* ContentModerator (content_moderator.py)                                 *)
(***************************************************************************)
\* similarities and thresholds are counted in 1/SimUnits: SimUnits is 1.0
SimUnits == 4
\* largest similarity an image has to a word
SimBound == 2
\* calls of the CLIP model for one string, failed ones included
MaxModelCalls == 2

\* self.similarity_threshold = 0.25 after construction
DefaultThreshold == SimUnits \div 4
\* cosine similarities of an image to a word: negative, zero and positive ones
SimValues == (-1)..SimBound
\* arguments of set_similarity_threshold: values of [0.0, 1.0] and one value
\* past either end
ThresholdArgs == {-1, 0, SimBound, SimUnits, SimUnits + 1}

\* self.inappropriate_content after construction, cut down to two categories
\* and three words; a dict keeps its categories in insertion order
InitialContent ==
  << [category |-> "violence", words |-> <<"fight", "gun">>],
     [category |-> "sexual", words |-> <<"nude">>] >>
\* the strings get_text_embedding is asked for
Texts == {"fight", "gun", "nude", "Nude"}
\* the strings a caller embeds directly: a word and its capitalised form
EmbedTexts == {"nude", "Nude"}

CategoriesOf(content) == {content[k].category : k \in 1..Len(content)}
WordsOf(words) == {words[i] : i \in 1..Len(words)}
VocabularyWords(content) == UNION {WordsOf(content[k].words) : k \in 1..Len(content)}

\* an image embedding, given by its cosine similarity to the text features
\* of every word (a zero vector has similarity 0 to all of them)
Images == [VocabularyWords(InitialContent) -> SimValues]
BlankImage == [w \in Texts |-> 0]

ExcEmbedding == "RuntimeError: CLIP model failed"
ExcThreshold == "ValueError: Threshold must be between 0.0 and 1.0"

\* clip_model.get_text_features for a string, flattened: the vector made by
\* the n-th model call for that string
clip_text_features(t, n) == [features_of |-> t, call |-> n]
NoEmbedding == [features_of |-> "", call |-> 0]

\* variant: the cache is not consulted, every request goes to the model
get_text_embedding_uncached(cache, calls, t, model_ok) ==
  LET n == calls[t] + 1 IN
    IF model_ok
      THEN [cache |-> (t :> clip_text_features(t, n)) @@ cache,
            calls |-> [calls EXCEPT ![t] = n],
            ok |-> TRUE, embedding |-> clip_text_features(t, n)]
      ELSE [cache |-> cache, calls |-> [calls EXCEPT ![t] = n],
            ok |-> FALSE, embedding |-> NoEmbedding]

\* get_text_embedding(t): the cache and call counts after it, whether it
\* returned, and the vector it returned. The model is asked only for a string
\* that is not a key of the cache; a model call that raises stores nothing.
get_text_embedding(cache, calls, t, model_ok) ==
  IF t \in DOMAIN cache
    THEN [cache |-> cache, calls |-> calls, ok |-> TRUE, embedding |-> cache[t]]
    ELSE LET n == calls[t] + 1 IN
      IF model_ok
        THEN [cache |-> (t :> clip_text_features(t, n)) @@ cache,
              calls |-> [calls EXCEPT ![t] = n],
              ok |-> TRUE, embedding |-> clip_text_features(t, n)]
        ELSE [cache |-> cache, calls |-> [calls EXCEPT ![t] = n],
              ok |-> FALSE, embedding |-> NoEmbedding]

\* cosine_similarity(image_embedding, text_embedding)
cosine_similarity(image, text_embedding) == image[text_embedding.features_of]

\* variant: every similarity other than the threshold flags
differs_from_threshold(similarity, threshold) == similarity # threshold

\* variant: a similarity equal to the threshold flags too
reaches_threshold(similarity, threshold) == similarity >= threshold

\* lines 149 and 155: similarity > self.similarity_threshold
exceeds_threshold(similarity, threshold) == similarity > threshold

\* variant: a word that could not be embedded counts as a perfect match
word_failed_scored(acc, word, g) ==
  [acc EXCEPT !.category_max_similarity = SimUnits, !.category_most_similar = word,
              !.max_similarity = SimUnits, !.most_similar_content = word,
              !.cache = g.cache, !.calls = g.calls]

\* variant: a word that could not be embedded empties the cache
word_failed_clears(acc, word, g) == [acc EXCEPT !.cache = <<>>, !.calls = g.calls]

\* lines 141-143: the except clause prints the error and continues
word_failed(acc, word, g) == [acc EXCEPT !.cache = g.cache, !.calls = g.calls]

\* lines 129-143 for one word: the running maxima, the cache and the call
\* counts after it
scan_word(acc, word, image, fails) ==
  LET g == get_text_embedding(acc.cache, acc.calls, word, word \notin fails) IN
    IF ~g.ok THEN word_failed(acc, word, g)
    ELSE LET similarity == cosine_similarity(image, g.embedding)
             a1 == IF similarity > acc.category_max_similarity
                     THEN [acc EXCEPT !.category_max_similarity = similarity,
                                      !.category_most_similar = word]
                     ELSE acc
             a2 == IF similarity > a1.max_similarity
                     THEN [a1 EXCEPT !.max_similarity = similarity,
                                     !.most_similar_content = word]
                     ELSE a1
         IN [a2 EXCEPT !.cache = g.cache, !.calls = g.calls]

\* line 128: for word in words, from position i on
RECURSIVE scan_words(_, _, _, _, _)
scan_words(acc, words, i, image, fails) ==
  IF i > Len(words) THEN acc
  ELSE scan_words(scan_word(acc, words[i], image, fails), words, i + 1, image, fails)

\* lines 124-150: for category, words in the dict, from position k on
RECURSIVE scan_categories(_, _, _, _, _, _)
scan_categories(acc, content, k, image, fails, threshold) ==
  IF k > Len(content) THEN acc
  ELSE LET start == [acc EXCEPT !.category_max_similarity = 0,
                                !.category_most_similar = None]
           done == scan_words(start, content[k].words, 1, image, fails)
           entry == [max_similarity |-> done.category_max_similarity,
                     most_similar_word |-> done.category_most_similar,
                     flagged |-> exceeds_threshold(done.category_max_similarity, threshold)]
       IN scan_categories([done EXCEPT !.categories = (content[k].category :> entry) @@ @],
                          content, k + 1, image, fails, threshold)

\* check_image_content(image): the dictionary it returns and the cache and
\* call counts it leaves; `fails` are the strings the model call raises for
check_image_content(content, cache, calls, threshold, image, fails) ==
  LET start == [max_similarity |-> 0, most_similar_content |-> None,
                category_max_similarity |-> 0, category_most_similar |-> None,
                categories |-> <<>>, cache |-> cache, calls |-> calls]
      done == scan_categories(start, content, 1, image, fails, threshold)
  IN [results |-> [flagged |-> exceeds_threshold(done.max_similarity, threshold),
                   categories |-> done.categories,
                   max_similarity |-> done.max_similarity,
                   most_similar_content |-> done.most_similar_content],
      cache |-> done.cache,
      calls |-> done.calls]

NoVerdict == [flagged |-> FALSE, categories |-> <<>>, max_similarity |-> 0,
              most_similar_content |-> None]

\* the moderator after construction, with no call in progress
InitModerator ==
  /\ mpc = "idle"
  /\ inappropriate_content = InitialContent
  /\ text_embeddings_cache = <<>>
  /\ similarity_threshold = DefaultThreshold
  /\ image_embedding = <<>>
  /\ verdict = NoVerdict
  /\ text = ""
  /\ embedding = NoEmbedding
  /\ model_calls = [t \in Texts |-> 0]
  /\ arg_category = ""
  /\ arg_word = ""
  /\ arg_threshold = 0
  /\ merr = None

\* a caller calls check_image_content with one of the given images; the model
\* call may raise for any string that has to be embedded
CheckImageContent(images) ==
  /\ mpc = "idle"
  /\ LET missing == VocabularyWords(inappropriate_content) \ DOMAIN text_embeddings_cache IN
       /\ \A w \in missing : model_calls[w] < MaxModelCalls
       /\ \E image \in images, fails \in SUBSET missing :
            LET r == check_image_content(inappropriate_content, text_embeddings_cache,
                                         model_calls, similarity_threshold, image, fails) IN
              /\ image_embedding' = image
              /\ verdict' = r.results
              /\ text_embeddings_cache' = r.cache
              /\ model_calls' = r.calls
  /\ mpc' = "checked"
  /\ UNCHANGED <<inappropriate_content, similarity_threshold, text, embedding,
                 arg_category, arg_word, arg_threshold, merr>>
  /\ UNCHANGED <<pvars, fs, dvars, ndirect, lvars, evars, ovars>>

CheckAnyImage == CheckImageContent(Images)
CheckBlankImage == CheckImageContent({BlankImage})

\* a caller calls get_text_embedding(t) directly
GetTextEmbedding ==
  /\ mpc = "idle"
  /\ \E t \in EmbedTexts, model_ok \in BOOLEAN :
       /\ t \in DOMAIN text_embeddings_cache \/ model_calls[t] < MaxModelCalls
       /\ LET g == get_text_embedding(text_embeddings_cache, model_calls, t, model_ok) IN
            /\ text' = t
            /\ text_embeddings_cache' = g.cache
            /\ model_calls' = g.calls
            /\ embedding' = g.embedding
            /\ IF g.ok THEN mpc' = "embedded" /\ UNCHANGED merr
                       ELSE mpc' = "raised" /\ merr' = ExcEmbedding
  /\ UNCHANGED <<inappropriate_content, similarity_threshold, image_embedding,
                 verdict, arg_category, arg_word, arg_threshold>>
  /\ UNCHANGED <<pvars, fs, dvars, ndirect, lvars, evars, ovars>>

\* variant: the endpoints 0.0 and 1.0 are refused
set_similarity_threshold_open(current, threshold) ==
  IF 0 < threshold /\ threshold < SimUnits
    THEN [threshold |-> threshold, raise |-> None]
    ELSE [threshold |-> current, raise |-> ExcThreshold]

\* set_similarity_threshold(threshold): the threshold after the call and the
\* exception it raises, or None
set_similarity_threshold(current, threshold) ==
  IF 0 <= threshold /\ threshold <= SimUnits
    THEN [threshold |-> threshold, raise |-> None]
    ELSE [threshold |-> current, raise |-> ExcThreshold]

\* a caller calls set_similarity_threshold(threshold)
SetSimilarityThreshold ==
  /\ mpc = "idle"
  /\ \E threshold \in ThresholdArgs :
       LET r == set_similarity_threshold(similarity_threshold, threshold) IN
         /\ arg_threshold' = threshold
         /\ similarity_threshold' = r.threshold
         /\ merr' = r.raise
         /\ mpc' = IF r.raise = None THEN "threshold_set" ELSE "raised"
  /\ UNCHANGED <<inappropriate_content, text_embeddings_cache, image_embedding,
                 verdict, text, embedding, model_calls, arg_category, arg_word>>
  /\ UNCHANGED <<pvars, fs, dvars, ndirect, lvars, evars, ovars>>

\* categories and words a caller adds: an existing and a new category, a word
\* the vocabulary holds and the capitalised form of one it holds
AddCategories == {"violence", "custom"}
AddWords == {"gun", "Nude"}

\* variant: the cache is kept when a word is added
add_inappropriate_word_keeps_cache(content, cache, category, word) ==
  LET content1 == IF category \notin CategoriesOf(content)
                    THEN Append(content, [category |-> category, words |-> <<>>])
                    ELSE content
      k == CHOOSE i \in 1..Len(content1) : content1[i].category = category
  IN IF word \notin WordsOf(content1[k].words)
       THEN [content |-> [content1 EXCEPT ![k].words = Append(@, word)], cache |-> cache]
       ELSE [content |-> content1, cache |-> cache]

\* variant: the word is appended without looking for it in the category
add_inappropriate_word_always_appends(content, cache, category, word) ==
  LET content1 == IF category \notin CategoriesOf(content)
                    THEN Append(content, [category |-> category, words |-> <<>>])
                    ELSE content
      k == CHOOSE i \in 1..Len(content1) : content1[i].category = category
  IN [content |-> [content1 EXCEPT ![k].words = Append(@, word)], cache |-> <<>>]

\* add_inappropriate_word(category, word): the vocabulary and the cache after
\* it. A new category is created with an empty list; the word is appended
\* only if the category does not hold it, and then the cache is cleared.
add_inappropriate_word(content, cache, category, word) ==
  LET content1 == IF category \notin CategoriesOf(content)
                    THEN Append(content, [category |-> category, words |-> <<>>])
                    ELSE content
      k == CHOOSE i \in 1..Len(content1) : content1[i].category = category
  IN IF word \notin WordsOf(content1[k].words)
       THEN [content |-> [content1 EXCEPT ![k].words = Append(@, word)], cache |-> <<>>]
       ELSE [content |-> content1, cache |-> cache]

\* a caller calls add_inappropriate_word(category, word)
AddInappropriateWord ==
  /\ mpc = "idle"
  /\ \E c \in AddCategories, w \in AddWords :
       LET r == add_inappropriate_word(inappropriate_content, text_embeddings_cache, c, w) IN
         /\ arg_category' = c
         /\ arg_word' = w
         /\ inappropriate_content' = r.content
         /\ text_embeddings_cache' = r.cache
  /\ mpc' = "added"
  /\ UNCHANGED <<similarity_threshold, image_embedding, verdict, text, embedding,
                 model_calls, arg_threshold, merr>>
  /\ UNCHANGED <<pvars, fs, dvars, ndirect, lvars, evars, ovars>>

\* the caller has the outcome of its call: arguments and result are gone
ModeratorLeave ==
  /\ mpc \in {"checked", "embedded", "threshold_set", "added", "raised"}
  /\ mpc' = "idle"
  /\ image_embedding' = <<>>
  /\ verdict' = NoVerdict
  /\ text' = ""
  /\ embedding' = NoEmbedding
  /\ arg_category' = ""
  /\ arg_word' = ""
  /\ arg_threshold' = 0
  /\ merr' = None
  /\ UNCHANGED <<inappropriate_content, text_embeddings_cache, similarity_threshold,
                 model_calls>>
  /\ UNCHANGED <<pvars, fs, dvars, ndirect, lvars, evars, ovars>>

(***************************************************************************)
(* VideoProcessor.health_check (video_processor.py)                        *)
(***************************************************************************)
\* what self.temp_dir is on disk; "unreadable": stat() on it is refused
TempDirStates == {"missing", "file", "dir", "dir_readonly", "unreadable"}
\* what the four checks find: the gateway's query, the temp directory, the
\* attributes of the injected downloader and extractor objects
Components ==
  [database : {"ok", "error"}, temp_dir : TempDirStates,
   session : BOOLEAN, default_percentages : BOOLEAN]
NoComponents ==
  [database |-> "ok", temp_dir |-> "dir", session |-> TRUE, default_percentages |-> TRUE]
\* lines 292-297: every status starts False
AllUnhealthy ==
  [database |-> FALSE, temp_directory |-> FALSE, video_downloader |-> FALSE,
   frame_extractor |-> FALSE]

\* DatabaseManager.get_connection_status: True when the query ran, False when
\* it raised
get_connection_status(query) == query = "ok"

\* self.temp_dir.exists() and self.temp_dir.is_dir(): its value, or the
\* PermissionError of stat()
temp_dir_check(state) ==
  CASE state = "unreadable" -> [raise |-> TRUE, value |-> FALSE]
    [] state \in {"dir", "dir_readonly"} -> [raise |-> FALSE, value |-> TRUE]
    [] OTHER -> [raise |-> FALSE, value |-> FALSE]

HealthUnchanged ==
  UNCHANGED <<pvars, fs, dvars, ndirect, lvars, evars, mvars, ivars, by_id>>

\* lines 290-297
HealthCheck ==
  /\ hpc = "idle"
  /\ \E c \in Components : components' = c
  /\ health' = AllUnhealthy
  /\ hpc' = "database"
  /\ HealthUnchanged

\* line 301
CheckDatabase ==
  /\ hpc = "database"
  /\ health' = [health EXCEPT !.database = get_connection_status(components.database)]
  /\ hpc' = "temp_directory"
  /\ UNCHANGED components
  /\ HealthUnchanged

\* line 304; an exception goes to the except clause (312-313) and the return
CheckTempDirectory ==
  /\ hpc = "temp_directory"
  /\ LET c == temp_dir_check(components.temp_dir) IN
       IF c.raise
         THEN hpc' = "returned" /\ UNCHANGED health
         ELSE /\ health' = [health EXCEPT !.temp_directory = c.value]
              /\ hpc' = "video_downloader"
  /\ UNCHANGED components
  /\ HealthUnchanged

\* line 307: hasattr(self.video_downloader, 'session')
CheckVideoDownloader ==
  /\ hpc = "video_downloader"
  /\ health' = [health EXCEPT !.video_downloader = components.session]
  /\ hpc' = "frame_extractor"
  /\ UNCHANGED components
  /\ HealthUnchanged

\* lines 310 and 315-316: hasattr(self.frame_extractor, 'default_percentages')
CheckFrameExtractor ==
  /\ hpc = "frame_extractor"
  /\ health' = [health EXCEPT !.frame_extractor = components.default_percentages]
  /\ hpc' = "returned"
  /\ UNCHANGED components
  /\ HealthUnchanged

\* the caller has the dictionary
HealthLeave ==
  /\ hpc = "returned"
  /\ hpc' = "idle"
  /\ components' = NoComponents
  /\ health' = AllUnhealthy
  /\ HealthUnchanged

HealthNext ==
  \/ HealthCheck \/ CheckDatabase \/ CheckTempDirectory
  \/ CheckVideoDownloader \/ CheckFrameExtractor \/ HealthLeave

(***************************************************************************)
(* Several VideoDownloader objects (video_downloader.py)                   *)
(***************************************************************************)
\* the VideoDownloader objects of the process. _rate_limited_request is
\* decorated once, in the class body (lines 64-66): the decorator object and
\* its counter and window, lvars, are the same for every instance.
Instances == {"a", "b"}

\* a client calls download_video on one of the instances
InstanceDownload ==
  /\ ppc = "idle"
  /\ dpc = "idle"
  /\ ndirect < MaxDirect
  /\ ndirect' = ndirect + 1
  /\ \E i \in Instances : instance' = i
  /\ \E url \in URLS, path \in ClientPaths : DownloadEnter(url, path)
  /\ UNCHANGED <<pvars, fs, lvars, evars, mvars, hvars, admissions_of, by_id>>

\* the call has ended: the admissions it was given are added to its instance
InstanceReturn ==
  /\ ppc = "idle"
  /\ dpc \in {"returned", "raised"}
  /\ admissions_of' = [admissions_of EXCEPT ![instance] = @ + admitted]
  /\ DownloadLeave
  /\ UNCHANGED <<pvars, fs, ndirect, lvars, evars, mvars, hvars, instance, by_id>>

(***************************************************************************)
(* Specifications                                                          *)
(***************************************************************************)
\* every variable but fs after construction
InitRest ==
  /\ ppc = "idle"
  /\ nclips = 0
  /\ idx = 0
  /\ clip = NoClip
  /\ result = ProcessingResult("c1")
  /\ results = <<>>
  /\ total_processed = 0
  /\ successful_processed = 0
  /\ failed_processed = 0
  /\ frames = 0
  /\ saved = {}
  /\ dpc = "idle"
  /\ durl = ""
  /\ dpath = "c1"
  /\ total_downloaded = 0
  /\ expected_size = NoSize
  /\ reported = NoSize
  /\ body_len = 0
  /\ derr = None
  /\ heads = 0
  /\ gets = 0
  /\ admitted = 0
  /\ written = 0
  /\ ndirect = 0
  /\ num_calls = 0
  /\ elapsed = 0
  /\ sleep_for = 0
  /\ ages = <<>>
  /\ InitExtractor
  /\ InitModerator
  /\ hpc = "idle"
  /\ components = NoComponents
  /\ health = AllUnhealthy
  /\ instance = "a"
  /\ admissions_of = [i \in Instances |-> 0]
  /\ by_id = FALSE

\* a batch run of the processor; its clock moves only while the limiter sleeps.
\* The temp directory is clean or holds files left by an earlier run.
Init ==
  /\ InitRest
  /\ fs \in {[p \in ClipIds |-> NoFile], [p \in ClipIds |-> ChunkBound]}
Next == ProcessorNext \/ DownloaderNext
Spec == Init /\ [][Next]_vars

\* a processor whose process_all_clips is called again and again
NextBatches == Next \/ BatchReturn
SpecBatches == Init /\ [][NextBatches]_vars

\* health_check called again and again
SpecHC == Init /\ [][HealthNext]_vars

\* a processor whose callers use process_all_clips and process_clip_by_id
NextById == NextBatches \/ ProcessClipById \/ ByIdReturn \/ ByIdLeave
SpecById == Init /\ [][NextById]_vars

\* the downloader under a client that calls download_video directly
InitDL ==
  /\ InitRest
  /\ fs = [p \in ClipIds |-> NoFile]
NextDL == ClientDownload \/ ClientReturn \/ DownloaderNext \/ Tick
SpecDL == InitDL /\ [][NextDL]_vars

\* clients of two VideoDownloader objects, one call at a time
NextInst == InstanceDownload \/ InstanceReturn \/ DownloaderNext
SpecInst == InitDL /\ [][NextInst]_vars

\* the downloader under a scheduler that keeps running the call in progress
\* (the program is single-threaded and the server answers every request)
FairSpecDL == SpecDL /\ WF_vars(DownloaderNext)

\* the frame extractor under a caller that calls it with any file and list
InitFE == InitDL
NextFE == ExtractorNext
SpecFE == InitFE /\ [][NextFE]_vars

\* the moderator under a caller that checks images and moves the threshold
InitCM == InitDL
NextCM == CheckAnyImage \/ SetSimilarityThreshold \/ ModeratorLeave
SpecCM == InitCM /\ [][NextCM]_vars

\* the embedding cache under a caller that embeds texts and checks an image
InitEmb == InitDL
NextEmb == GetTextEmbedding \/ CheckBlankImage \/ ModeratorLeave
SpecEmb == InitEmb /\ [][NextEmb]_vars

\* the moderator under a caller that adds words and checks an image
InitVoc == InitDL
NextVoc == AddInappropriateWord \/ CheckBlankImage \/ ModeratorLeave
SpecVoc == InitVoc /\ [][NextVoc]_vars

(***************************************************************************)
(* Properties                                                              *)
(***************************************************************************)
\* C1: for a clip with a non-empty clip_path, the temporary file
\* temp_dir/{clip_id}.mov does not exist when process_single_clip returns,
\* whatever happened in between, and nothing touches the file system between
\* that return and the next clip's download.
C1_TempFileRemoved ==
  /\ [](ppc = "single_returned" /\ clip.clip_path # ""
          => ~exists(fs, create_temp_path(clip.id)))
  /\ [][(ppc \in {"single_returned", "loop", "single_start"}) => (fs' = fs)]_vars

\* the download left a partial file behind and the processor has returned
C1_Witness ==
  /\ ppc = "single_returned"
  /\ clip.clip_path # ""
  /\ result.error_message = ExcStreamSize

\* C2: a batch whose listing succeeded returns normally with every listed clip
\* counted, whatever failed per clip; the batch raises only when listing the
\* clips failed, before any clip was started.
C2_BatchCompletes ==
  /\ ppc = "batch_done" /\ nclips > 0
       => /\ total_processed = nclips
          /\ idx = nclips + 1
          /\ successful_processed + failed_processed = nclips
  /\ ppc = "batch_raised" => idx = 0 /\ total_processed = 0
  /\ ppc = "single_returned" /\ clip.clip_path = "" => ~result.success

\* three clips listed, two succeeded and one failed
C2_Witness ==
  /\ ppc = "batch_done"
  /\ nclips = 3
  /\ total_processed = 3
  /\ successful_processed = 2
  /\ failed_processed = 1

\* C3: the counters change only when process_single_clip has returned (total
\* by one, and successful or failed by one according to result.success) or
\* when a batch starts and resets them; total = successful + failed always.
C3_CountersFollowResults ==
  /\ [](total_processed = successful_processed + failed_processed)
  /\ [][<<total_processed, successful_processed, failed_processed>>'
          # <<total_processed, successful_processed, failed_processed>>
        => \/ /\ ppc = "idle"
              /\ total_processed' = 0
              /\ successful_processed' = 0
              /\ failed_processed' = 0
           \/ /\ ppc = "single_returned"
              /\ total_processed' = total_processed + 1
              /\ IF result.success
                   THEN /\ successful_processed' = successful_processed + 1
                        /\ failed_processed' = failed_processed
                   ELSE /\ failed_processed' = failed_processed + 1
                        /\ successful_processed' = successful_processed]_vars

\* between two clips, after one success and one failure
C3_Witness ==
  /\ ppc = "loop"
  /\ successful_processed = 1
  /\ failed_processed = 1

\* C4 as claimed: the bytes download_video has written to the local file
\* never exceed max_file_size.
C4_WrittenWithinCeiling == written <= max_file_size

\* C5 as claimed: once download_video has aborted because the byte count
\* exceeded max_file_size, no file exists at local_path.
C5_PartialFileRemoved ==
  dpc = "raised" /\ derr = ExcStreamSize => ~exists(fs, dpath)

\* C6 as claimed: at most CALLS rate-limited requests start within any
\* RATE_LIMIT_PERIOD seconds.
C6_RollingWindow == Len(ages) <= CALLS

\* C7: a request refused by the limiter is not failed or dropped: it sleeps
\* and is then sent, and every download_video call comes to an end.
C7_RefusedRequestIsSent ==
  /\ [](derr # ExcRateLimit)
  /\ [](dpc = "head_sent" => heads = 1)
  /\ [](dpc = "get_sent" => gets = 1)
  /\ (dpc = "head_sleep") ~> (dpc = "head_sent")
  /\ (dpc = "get_sleep") ~> (dpc = "get_sent")
  /\ (dpc = "validate") ~> (dpc \in {"returned", "raised"})

\* a GET request is refused and sleeps
C7_Witness == dpc = "get_sleep" /\ sleep_for > 0

\* C8: for a URL that is malformed or has a scheme other than http/https,
\* download_video raises the invalid-URL error having sent no request, taken
\* no admission and touched neither a file nor the limiter.
InvalidURL(url) ==
  ~validators_url(url) \/ urlparse_scheme(url) \notin {"http", "https"}

C8_InvalidURLNoRequest ==
  /\ [](dpc # "idle" /\ InvalidURL(durl)
          => /\ dpc \in {"validate", "raised"}
             /\ dpc = "raised" => derr = ExcInvalidURL
             /\ heads = 0 /\ gets = 0 /\ admitted = 0 /\ written = 0)
  /\ [][(dpc # "idle" /\ InvalidURL(durl)) => (fs' = fs /\ lvars' = lvars)]_vars

\* a malformed URL with an http scheme has been refused
C8_Witness == dpc = "raised" /\ durl = "http://" /\ derr = ExcInvalidURL

\* C9: when the HEAD reply announces more than max_file_size bytes,
\* download_video raises the size error with no GET sent and no byte written.
C9_PreflightStopsDownload ==
  reported > max_file_size
    => /\ dpc = "raised"
       /\ derr = ExcPreflightSize
       /\ heads = 1 /\ gets = 0 /\ written = 0

\* the HEAD reply announced one byte too many
C9_Witness == dpc = "raised" /\ reported = max_file_size + 1

C11_TimeoutKindDistinct ==
  dpc = "raised" /\ derr = ExcTimeout
    => \A e \in Exceptions \ {ExcTimeout} : exc_type(e) # exc_type(derr)

\* C12 as claimed: once download_video has failed having written zero bytes,
\* no file exists at local_path, whether the call created it or found it there.
C12_NoFileAfterEmptyFailure ==
  dpc = "raised" /\ written = 0 => ~exists(fs, dpath)

\* C12, amended: once download_video has failed inside its try block (the GET
\* request was sent) having written zero bytes, no file exists at local_path,
\* whether the call created it or found it there; a call that fails before
\* the try block (URL check, pre-flight size check) never touches a file.
C12_NoFileAfterEmptyFailureInTry ==
  /\ [](dpc = "raised" /\ gets = 1 /\ written = 0 => ~exists(fs, dpath))
  /\ [](dpc = "raised" /\ gets = 0
          => derr \in {ExcInvalidURL, ExcPreflightSize, ExcContentLength})
  /\ [][(dpc \in {"validate", "head_gate", "head_sleep", "head_sent"}) => (fs' = fs)]_vars

\* the connection timed out after the file was created and before the first
\* chunk of the body was written
C12_Witness ==
  /\ dpc = "raised"
  /\ derr = ExcTimeout
  /\ body_len > 0
  /\ written = 0
  /\ ~exists(fs, dpath)

\* C13: for a list P that is valid (non-empty, every value in [0,1], in any
\* order, duplicates allowed) and a video of positive duration whose frames
\* all decode, the call returns exactly Len(P) frames, the i-th being the
\* image of the frame the decoder returned for timestamp duration * P[i];
\* such a call raises only when a frame could not be used.
ValidPercentages(P) ==
  /\ P # <<>>
  /\ \A i \in 1..Len(P) : 0 <= P[i] /\ P[i] <= PctUnits

C13_FramesInOrder ==
  /\ epc = "returned"
       => /\ ValidPercentages(percentages) /\ duration > 0
          /\ Len(eret) = Len(percentages)
          /\ \A i \in 1..Len(percentages) :
               eret[i] = [image_of |-> duration * percentages[i]]
          /\ requested = [i \in 1..Len(percentages) |-> duration * percentages[i]]
  /\ epc = "raised" /\ ValidPercentages(percentages) /\ opens = 1 /\ duration > 0
       => eerr = ExcFrame /\ frame_fault \notin {"none", "frame"}

\* an unsorted list with a duplicate was extracted from the longest video
C13_Witness ==
  /\ epc = "returned"
  /\ percentages = <<PctUnits, 0, PctUnits>>
  /\ duration = MaxDuration
  /\ Len(eret) = 3

\* C14: a call opens the video at most once, holds the open handle only
\* between opening it and leaving the try block, and has closed it when it
\* returns or raises, whatever made it raise; with a duration <= 0 no frame
\* has been requested.
C14_ClipClosed ==
  /\ opens <= 1
  /\ video_clip = "open" <=> epc \in {"duration", "frame"}
  /\ epc \in {"returned", "raised"} /\ opens = 1 => video_clip = "closed"
  /\ epc \in {"returned", "raised"} /\ opens = 0 => video_clip = None
  /\ eerr = ExcDuration => requested = <<>> /\ video_clip = "closed"

\* a video of duration 0 was opened, refused and closed
C14_Witness ==
  epc = "raised" /\ eerr = ExcDuration /\ duration = 0 /\ video_clip = "closed"

\* C15: as soon as one frame is null, empty, zero-area or fails to decode,
\* the call raises the extraction error and returns no frames, however many
\* frames were extracted before; the failing timestamp is the last one
\* requested from the decoder.
C15_FrameFaultFailsCall ==
  /\ [](frame_fault \notin {"none", "frame"}
          => /\ epc = "raised"
             /\ eerr = ExcFrame
             /\ eret = <<>>
             /\ Len(requested) = fi
             /\ Len(extracted_frames) = fi - 1)
  /\ [][(epc = "raised") => (requested' = requested \/ requested' = <<>>)]_vars

\* the third frame had zero area after two frames were extracted
C15_Witness ==
  /\ epc = "raised"
  /\ frame_fault = "zero-area"
  /\ Len(extracted_frames) = 2
  /\ eret = <<>>

\* C16: with a path that is missing, not a regular file or empty, or with a
\* list that is empty or holds a value outside [0,1], the call raises a
\* validation error and never opens the video.
InvalidFile == video_file \in {"missing", "directory", "empty"}
InvalidPercentages ==
  \/ percentages = <<>>
  \/ \E i \in 1..Len(percentages) : percentages[i] < 0 \/ percentages[i] > PctUnits

C16_InvalidInputNeverOpens ==
  epc # "idle" /\ (InvalidFile \/ InvalidPercentages)
    => /\ epc \in {"validate", "raised"}
       /\ opens = 0
       /\ video_clip = None
       /\ requested = <<>>
       /\ epc = "raised"
            => eerr \in {ExcMissingFile, ExcNotFile, ExcEmptyFile, ExcNoPercentages,
                         ExcPercentageRange}

\* a readable video with a percentage above 1.0 was refused
C16_Witness ==
  /\ epc = "raised"
  /\ video_file = "video"
  /\ percentages = <<0, PctUnits + 1>>
  /\ eerr = ExcPercentageRange

\* the words of the k-th category that check_image_content could embed: after
\* the check every word of the vocabulary is cached unless its model call raised
EmbeddedWords(k) ==
  WordsOf(inappropriate_content[k].words) \cap DOMAIN text_embeddings_cache
AllEmbeddedWords ==
  VocabularyWords(inappropriate_content) \cap DOMAIN text_embeddings_cache
MaxOf(S) == CHOOSE m \in S : \A x \in S : x <= m

\* C17: in a verdict, a category is flagged iff its maximum similarity is
\* strictly above the current threshold, i.e. iff some embedded word of it is
\* strictly more similar to the image than the threshold; the verdict is
\* flagged iff the overall maximum is; a maximum equal to the threshold does
\* not flag.
C17_StrictThreshold ==
  mpc = "checked"
    => /\ \A k \in 1..Len(inappropriate_content) :
            LET entry == verdict.categories[inappropriate_content[k].category] IN
              /\ entry.flagged <=> entry.max_similarity > similarity_threshold
              /\ entry.flagged
                   <=> \E w \in EmbeddedWords(k) : image_embedding[w] > similarity_threshold
       /\ verdict.flagged <=> verdict.max_similarity > similarity_threshold
       /\ verdict.flagged
            <=> \E w \in AllEmbeddedWords : image_embedding[w] > similarity_threshold
       /\ verdict.max_similarity = similarity_threshold => ~verdict.flagged

\* the most similar word is exactly as similar as a positive threshold
C17_Witness ==
  /\ mpc = "checked"
  /\ similarity_threshold = SimBound
  /\ verdict.max_similarity = similarity_threshold
  /\ verdict.categories["violence"].max_similarity = similarity_threshold
  /\ ~verdict.flagged

\* C18 as claimed: for every combination of similarities, each category
\* reports the maximum similarity over its embedded words and a word that
\* attains it, and the verdict reports the maximum over all categories and a
\* word that attains it.
C18_MaximaReported ==
  mpc = "checked"
    => /\ \A k \in 1..Len(inappropriate_content) :
            LET entry == verdict.categories[inappropriate_content[k].category] IN
              EmbeddedWords(k) # {}
                => /\ entry.max_similarity
                        = MaxOf({image_embedding[w] : w \in EmbeddedWords(k)})
                   /\ entry.most_similar_word \in EmbeddedWords(k)
                   /\ image_embedding[entry.most_similar_word] = entry.max_similarity
       /\ AllEmbeddedWords # {}
            => /\ verdict.max_similarity
                    = MaxOf({image_embedding[w] : w \in AllEmbeddedWords})
               /\ verdict.most_similar_content \in AllEmbeddedWords
               /\ image_embedding[verdict.most_similar_content] = verdict.max_similarity

\* C19: when the model call raised for some words, the verdict still has an
\* entry for every category and is the verdict of the same image under the
\* vocabulary without the words that failed.
WithoutFailedWords(content) ==
  [k \in 1..Len(content) |->
     [category |-> content[k].category,
      words |-> SelectSeq(content[k].words,
                          LAMBDA w : w \in DOMAIN text_embeddings_cache)]]

C19_FailedWordsLeftOut ==
  mpc = "checked"
    => /\ DOMAIN verdict.categories = CategoriesOf(inappropriate_content)
       /\ verdict = check_image_content(WithoutFailedWords(inappropriate_content),
                                        text_embeddings_cache, model_calls,
                                        similarity_threshold, image_embedding, {}).results

\* both words of a category failed, the most similar one among them; the
\* other category decides the verdict
C19_Witness ==
  /\ mpc = "checked"
  /\ EmbeddedWords(1) = {}
  /\ image_embedding["fight"] = SimBound
  /\ verdict.categories["violence"].most_similar_word = None
  /\ verdict.most_similar_content = "nude"

\* C20: the model is called for a string only while that exact string is not
\* a key of the cache; a stored vector is never replaced or dropped, so after
\* the call that stored it the model is not called again for that string,
\* and a get_text_embedding call that returns hands back the stored vector.
\* A model call that raised stored nothing: the next request repeats it.
C20_CachedTextSkipsModel ==
  /\ [][\A t \in Texts :
          /\ model_calls'[t] # model_calls[t]
               => /\ t \notin DOMAIN text_embeddings_cache
                  /\ model_calls'[t] = model_calls[t] + 1
          /\ t \in DOMAIN text_embeddings_cache
               => /\ t \in DOMAIN text_embeddings_cache'
                  /\ text_embeddings_cache'[t] = text_embeddings_cache[t]]_vars
  /\ [](\A t \in DOMAIN text_embeddings_cache :
          /\ text_embeddings_cache[t].features_of = t
          /\ text_embeddings_cache[t].call = model_calls[t])
  /\ [](mpc = "embedded"
          => text \in DOMAIN text_embeddings_cache
             /\ embedding = text_embeddings_cache[text])

\* "Nude" was embedded by its own model call although "nude" was cached, the
\* latter by a second model call after a first one that raised
C20_Witness ==
  /\ mpc = "embedded"
  /\ text = "Nude"
  /\ model_calls["Nude"] = 1
  /\ "nude" \in DOMAIN text_embeddings_cache
  /\ model_calls["nude"] = 2

\* C20 as claimed: with no invalidation, the model is called at most once for
\* each distinct string.
C20_ModelCalledOnce == \A t \in Texts : model_calls[t] <= 1

\* C21: whenever add_inappropriate_word changes the vocabulary, by a word
\* added to an existing or to a new category, the embedding cache is empty
\* right after it, and a check_image_content that starts with an empty cache
\* asks the model again for every word of the vocabulary.
C21_AddClearsCache ==
  /\ [][(inappropriate_content' # inappropriate_content)
          => (text_embeddings_cache' = <<>> /\ mpc' = "added")]_vars
  /\ [][(mpc = "idle" /\ mpc' = "checked" /\ text_embeddings_cache = <<>>)
          => (\A w \in VocabularyWords(inappropriate_content) :
                model_calls'[w] > model_calls[w])]_vars

\* a new category was added after every word had been embedded once
C21_Witness ==
  /\ mpc = "added"
  /\ arg_category = "custom"
  /\ Len(inappropriate_content) = 3
  /\ text_embeddings_cache = <<>>
  /\ \A w \in {"fight", "gun", "nude"} : model_calls[w] = 1

\* C22: adding the same word to the same category a second time changes
\* nothing, neither the vocabulary nor the cache, and no category ever holds
\* a word twice.
NoDuplicates(words) ==
  \A i, j \in 1..Len(words) : words[i] = words[j] => i = j

C22_AddIdempotent ==
  /\ [](\A k \in 1..Len(inappropriate_content) :
          NoDuplicates(inappropriate_content[k].words))
  /\ [](\A c \in AddCategories, w \in AddWords :
          LET once == add_inappropriate_word(inappropriate_content,
                                             text_embeddings_cache, c, w)
              twice == add_inappropriate_word(once.content, once.cache, c, w)
          IN twice.content = once.content /\ twice.cache = once.cache)
  /\ [][(mpc = "idle" /\ mpc' = "added"
            /\ \E k \in 1..Len(inappropriate_content) :
                  /\ inappropriate_content[k].category = arg_category'
                  /\ arg_word' \in WordsOf(inappropriate_content[k].words))
          => (inappropriate_content' = inappropriate_content
              /\ text_embeddings_cache' = text_embeddings_cache)]_vars

\* "Nude" was added to the new category a second time, with embeddings cached
\* since the first time
C22_Witness ==
  /\ mpc = "added"
  /\ arg_category = "custom"
  /\ arg_word = "Nude"
  /\ Len(inappropriate_content) = 3
  /\ inappropriate_content[3].words = <<"Nude">>
  /\ "Nude" \in DOMAIN text_embeddings_cache

\* C23: set_similarity_threshold accepts every value of [0.0, 1.0], both
\* endpoints included, and refuses every other value with the invalid-value
\* error, leaving the threshold as it was; the threshold is always in [0, 1].
C23_ThresholdInRange ==
  /\ [](0 <= similarity_threshold /\ similarity_threshold <= SimUnits)
  /\ [](mpc = "threshold_set"
          => /\ 0 <= arg_threshold /\ arg_threshold <= SimUnits
             /\ similarity_threshold = arg_threshold
             /\ merr = None)
  /\ [][(mpc = "idle" /\ mpc' \in {"threshold_set", "raised"} /\ merr' # ExcEmbedding)
          => IF 0 <= arg_threshold' /\ arg_threshold' <= SimUnits
               THEN mpc' = "threshold_set" /\ similarity_threshold' = arg_threshold'
               ELSE /\ mpc' = "raised"
                    /\ merr' = ExcThreshold
                    /\ similarity_threshold' = similarity_threshold]_vars

\* the endpoint 1.0 was accepted
C23_Witness ==
  /\ mpc = "threshold_set"
  /\ arg_threshold = SimUnits
  /\ similarity_threshold = SimUnits

\* C24: for the image, vocabulary and embedded words of a verdict, the
\* verdict under any threshold at or above the current one flags nothing
\* that the current verdict leaves unflagged, and the similarities and best
\* words are the same under every threshold.
VerdictAt(threshold) ==
  check_image_content(WithoutFailedWords(inappropriate_content), text_embeddings_cache,
                      model_calls, threshold, image_embedding, {}).results

C24_MonotoneInThreshold ==
  mpc = "checked"
    => \A t2 \in 0..SimUnits :
         LET v2 == VerdictAt(t2) IN
           /\ v2.max_similarity = verdict.max_similarity
           /\ v2.most_similar_content = verdict.most_similar_content
           /\ \A c \in DOMAIN verdict.categories :
                /\ v2.categories[c].max_similarity = verdict.categories[c].max_similarity
                /\ v2.categories[c].most_similar_word
                     = verdict.categories[c].most_similar_word
           /\ similarity_threshold <= t2
                => /\ ~verdict.flagged => ~v2.flagged
                   /\ \A c \in DOMAIN verdict.categories :
                        ~verdict.categories[c].flagged => ~v2.categories[c].flagged

\* a verdict flagged at threshold 0 whose maximum is below a higher threshold
C24_Witness ==
  /\ mpc = "checked"
  /\ similarity_threshold = 0
  /\ verdict.flagged
  /\ verdict.max_similarity < SimBound
  /\ ~verdict.categories["sexual"].flagged

\* C25: a clip whose clip_path is missing or empty is failed at once: the
\* result has success false and the message naming clip_path, the downloader
\* and the extractor are not called for it, and no file is created or deleted.
C25_MissingURLFailsAtOnce ==
  /\ [](ppc \in {"download", "extract", "save"} => clip.clip_path # "")
  /\ []((ppc = "single_returned" /\ clip.clip_path = "")
          => /\ ~result.success
             /\ result.error_message = MsgNoClipPath
             /\ frames = 0
             /\ saved = {})
  /\ [][(ppc = "single_start" /\ clip.clip_path = "" /\ ppc' # ppc)
          => /\ ppc' = "single_returned"
             /\ fs' = fs
             /\ saved' = saved
             /\ frames' = frames
             /\ UNCHANGED dvars]_vars

\* a clip without clip_path was failed while a file named by its id is on disk
C25_Witness ==
  /\ ppc = "single_returned"
  /\ clip.clip_path = ""
  /\ result.error_message = MsgNoClipPath
  /\ exists(fs, create_temp_path(clip.id))

\* C26: the extractor is entered only from a download that returned; a
\* download that raised ends the clip as failed with the downloader's
\* message, and neither the extractor nor the saving of frames runs for it.
C26_ExtractOnlyAfterDownload ==
  /\ [][(ppc' = "extract" /\ ppc # "extract")
          => (ppc = "download" /\ dpc = "returned")]_vars
  /\ [][(ppc' = "save" /\ ppc # "save") => ppc = "extract"]_vars
  /\ [][(ppc = "download" /\ dpc = "raised" /\ ppc' # ppc)
          => /\ ppc' = "single_returned"
             /\ ~result'.success
             /\ result'.error_message = derr
             /\ derr \in Exceptions
             /\ frames' = 0
             /\ saved' = {}]_vars

\* a clip failed with the downloader's timeout message
C26_Witness ==
  /\ ppc = "single_returned"
  /\ clip.clip_path # ""
  /\ ~result.success
  /\ result.error_message = ExcTimeout
  /\ frames = 0
  /\ saved = {}

\* C27: a result is successful only when the extraction returned its frames
\* and every frame was saved: frame_paths has one entry per frame, entry i is
\* the name made of the clip id and i counted from 1, frames_extracted is the
\* number of entries; an extraction that raises ends the clip as failed.
C27_SucceededAfterAllFramesSaved ==
  /\ [](result.success
          => /\ ppc = "single_returned"
             /\ frames = NFrames
             /\ Len(result.frame_paths) = frames
             /\ \A i \in 1..Len(result.frame_paths) :
                  result.frame_paths[i] = <<result.clip_id, i>>
             /\ result.clip_id = clip.id
             /\ result.frames_extracted = Len(result.frame_paths)
             /\ saved = {result.frame_paths[i] : i \in 1..Len(result.frame_paths)})
  /\ [][(result'.success /\ ~result.success) => ppc = "save"]_vars
  /\ [][(ppc = "extract" /\ ppc' \notin {"extract", "save"})
          => /\ ppc' = "single_returned"
             /\ ~result'.success
             /\ result'.error_message
                  \in {ExcMissingFile, ExcEmptyFile, ExcDuration, ExcFrame}]_vars

\* a clip succeeded with its three frames on disk
C27_Witness ==
  /\ ppc = "single_returned"
  /\ result.success
  /\ result.frame_paths = <<<<clip.id, 1>>, <<clip.id, 2>>, <<clip.id, 3>>>>
  /\ Cardinality(saved) = NFrames

\* C28: a result handed back by process_single_clip has one of two shapes:
\* success with no error message and frames_extracted = len(frame_paths), or
\* failure with an error message, no frame paths and frames_extracted = 0;
\* and success is set only once every frame is saved.
SuccessShape(r) ==
  /\ r.success
  /\ r.error_message = None
  /\ r.frames_extracted = Len(r.frame_paths)
FailureShape(r) ==
  /\ ~r.success
  /\ r.error_message # None
  /\ r.frame_paths = <<>>
  /\ r.frames_extracted = 0

C28_ResultShapes ==
  /\ ppc = "single_returned" => (SuccessShape(result) \/ FailureShape(result))
  /\ ~(result.success /\ result.error_message # None)
  /\ result.success => Cardinality(saved) = frames

\* a clip failed while saving, with some of its frames already on disk
C28_Witness ==
  /\ ppc = "single_returned"
  /\ FailureShape(result)
  /\ result.error_message = ExcSave
  /\ saved # {}

\* C29: process_all_clips raises only from the listing of the clips, in the
\* step that starts the call: no clip has been processed, no file or download
\* touched, and the counters are those the processor had before the call.
\* Every failure of a clip hands a result back to the loop instead.
C29_OnlyListingAborts ==
  /\ [][(ppc' = "batch_raised" /\ ppc # "batch_raised")
          => /\ ppc = "idle"
             /\ UNCHANGED <<total_processed, successful_processed, failed_processed>>
             /\ UNCHANGED <<clip, result, frames, saved, fs, dvars>>]_vars
  /\ [](ppc = "batch_raised" => (idx = 0 /\ dpc = "idle" /\ results = <<>>))
  /\ [][(ppc = "batch_raised" /\ ppc' # ppc)
          => /\ ppc' = "idle"
             /\ UNCHANGED <<total_processed, successful_processed,
                            failed_processed>>]_vars
  /\ [][(ppc \in {"download", "extract", "save", "single_start"} /\ ppc' # ppc)
          => ppc' \in {"download", "extract", "save", "single_returned"}]_vars
  /\ [][(ppc = "single_returned" /\ ppc' # ppc) => ppc' = "loop"]_vars

\* the listing failed in a call that follows a batch with a failed clip
C29_Witness ==
  /\ ppc = "batch_raised"
  /\ total_processed > 0
  /\ failed_processed > 0

\* C30: when process_all_clips has returned, get_processing_statistics
\* reports a total equal to the number of clips that call listed, and zero
\* counts when it listed none.
C30_StatisticsOfThisBatch ==
  ppc = "batch_done"
    => LET st == get_processing_statistics(total_processed, successful_processed,
                                           failed_processed) IN
         /\ st.total_processed = nclips
         /\ st.successful_processed + st.failed_processed = nclips

\* C33: whenever download_video returns True, the file at local_path exists
\* and holds exactly the bytes of the response body, whatever its length.
C33_ReturnedFileHoldsBody ==
  dpc = "returned"
    => (exists(fs, dpath) /\ fs[dpath] = body_len /\ written = body_len)

\* C34: when process_all_clips returns, the returned mapping has as many
\* entries as clips were processed, and as many successful entries as
\* successful_processed counts.
C34_OneResultPerClip ==
  (ppc = "batch_done" /\ nclips > 0)
    => /\ Cardinality(DOMAIN results) = total_processed
       /\ Cardinality({k \in DOMAIN results : results[k]}) = successful_processed

\* C35: the frame files a clip has written are exactly those its result
\* names in frame_paths, so a failed clip leaves none of its frames on disk.
C35_FramesOnDiskAreListed ==
  ppc = "single_returned"
    => saved = {result.frame_paths[i] : i \in 1..Len(result.frame_paths)}

\* C36: in every verdict the overall flag is true iff some category is
\* flagged, the overall maximum is the largest category maximum,
\* most_similar_content is the most similar word of the first category, in
\* vocabulary order, that attains it, and in each category the earliest of
\* the embedded words that are as similar as its maximum is the one reported.
CategoryEntry(k) == verdict.categories[inappropriate_content[k].category]

FlagIffSomeCategory ==
  verdict.flagged <=> \E k \in 1..Len(inappropriate_content) : CategoryEntry(k).flagged

OverallIsLargestCategory ==
  /\ verdict.max_similarity
       = MaxOf({CategoryEntry(k).max_similarity : k \in 1..Len(inappropriate_content)})
  /\ LET first == CHOOSE k \in 1..Len(inappropriate_content) :
                     /\ CategoryEntry(k).max_similarity = verdict.max_similarity
                     /\ \A j \in 1..(k - 1) :
                          CategoryEntry(j).max_similarity # verdict.max_similarity
     IN verdict.most_similar_content = CategoryEntry(first).most_similar_word

EarliestWordWins ==
  \A k \in 1..Len(inappropriate_content) :
    LET words == inappropriate_content[k].words
        ties == {i \in 1..Len(words) :
                   /\ words[i] \in DOMAIN text_embeddings_cache
                   /\ image_embedding[words[i]] = CategoryEntry(k).max_similarity}
    IN ties # {}
         => CategoryEntry(k).most_similar_word
              = words[CHOOSE i \in ties : \A j \in ties : i <= j]

C36_VerdictConsistent ==
  mpc = "checked"
    => (FlagIffSomeCategory /\ OverallIsLargestCategory /\ EarliestWordWins)

\* C37: check_image_content leaves the vocabulary and the threshold as they
\* are and only adds to the cache: every entry it had stays, every new entry
\* is for a vocabulary word and holds the vector of the model call just made
\* for it. A vocabulary word missing from the cache is asked of the model by
\* the check, so a word that failed is tried again by the next one. Adding a
\* word that its category already holds changes neither vocabulary nor cache.
C37_CheckOnlyAddsToCache ==
  /\ [][(mpc = "idle" /\ mpc' = "checked")
          => /\ inappropriate_content' = inappropriate_content
             /\ similarity_threshold' = similarity_threshold
             /\ \A w \in DOMAIN text_embeddings_cache :
                  /\ w \in DOMAIN text_embeddings_cache'
                  /\ text_embeddings_cache'[w] = text_embeddings_cache[w]
                  /\ model_calls'[w] = model_calls[w]
             /\ \A w \in DOMAIN text_embeddings_cache' \ DOMAIN text_embeddings_cache :
                  /\ w \in VocabularyWords(inappropriate_content)
                  /\ model_calls'[w] = model_calls[w] + 1
                  /\ text_embeddings_cache'[w] = clip_text_features(w, model_calls'[w])
             /\ \A w \in VocabularyWords(inappropriate_content)
                          \ DOMAIN text_embeddings_cache' :
                  model_calls'[w] > model_calls[w]]_vars
  /\ [][(mpc = "idle" /\ mpc' = "added"
            /\ inappropriate_content' = inappropriate_content)
          => text_embeddings_cache' = text_embeddings_cache]_vars

\* the model was asked twice for 'nude' and failed both times, 'fight' is
\* cached since the first check
C37_Witness ==
  /\ mpc = "checked"
  /\ "nude" \notin DOMAIN text_embeddings_cache
  /\ model_calls["nude"] = 2
  /\ "fight" \in DOMAIN text_embeddings_cache
  /\ model_calls["fight"] = 1

\* C38: a HEAD request that fails (network error, timeout, HTTP error status)
\* does not fail download_video: the call goes on to the GET request with no
\* expected size, and a body above the ceiling is then stopped only by the
\* byte count of the streaming loop.
C38_HeadFailureTolerated ==
  /\ [][(dpc = "head_sent" /\ dpc' # dpc /\ reported' = HeadFailed)
          => (dpc' = "get_gate" /\ expected_size' = NoSize /\ derr' = None
              /\ fs' = fs)]_vars
  /\ []((reported = HeadFailed /\ dpc = "raised")
          => /\ gets = 1
             /\ derr \in {ExcTimeout, ExcNetwork, ExcIO, ExcStreamSize}
             /\ derr = ExcStreamSize => total_downloaded > max_file_size)
  /\ []((reported = HeadFailed /\ dpc = "returned")
          => (gets = 1 /\ total_downloaded = body_len
              /\ total_downloaded <= max_file_size))

\* after a failed HEAD request a body above the ceiling was cut off mid-stream
C38_Witness ==
  /\ dpc = "raised"
  /\ reported = HeadFailed
  /\ derr = ExcStreamSize
  /\ expected_size = NoSize

\* C39 as stated: every download_video call with a valid URL has taken two
\* admissions from the limiter when it ends.
C39_EveryCallTakesTwo ==
  (dpc \in {"returned", "raised"} /\ validate_url(durl)) => admitted = 2

\* downloads that pass the limiter back to back without being refused, from
\* counter nc and window age el, at most k of them: HEAD, then GET
RECURSIVE downloads_unblocked(_, _, _)
downloads_unblocked(nc, el, k) ==
  IF k = 0 THEN 0
  ELSE LET h == limits_attempt(nc, el)
           g == limits_attempt(h.num_calls, h.elapsed)
       IN IF h.admit /\ g.admit
            THEN 1 + downloads_unblocked(g.num_calls, g.elapsed, k - 1)
            ELSE 0

\* admissions left in the current window
admissions_left == IF num_calls < CALLS THEN CALLS - num_calls ELSE 0

\* C39, amended: a call takes an admission for the HEAD request and then,
\* unless the pre-flight check raised, one for the GET request: a call that
\* reached the body request has taken exactly two, one that raised at the
\* pre-flight check one, one with an invalid URL none. A request is refused
\* exactly when the window is running and has no admission left, so from any
\* point of a running window half the admissions left, rounded down, is the
\* number of downloads that pass both requests back to back.
C39_TwoAdmissionsPerDownload ==
  /\ [](admitted = heads + gets /\ heads <= 1 /\ gets <= heads)
  /\ [](dpc \in {"get_sent", "open", "stream", "returned"} => admitted = 2)
  /\ [](dpc = "raised"
          => admitted = (CASE derr = ExcInvalidURL -> 0
                           [] derr \in {ExcPreflightSize, ExcContentLength} -> 1
                           [] OTHER -> 2))
  /\ [][(dpc \in {"head_gate", "get_gate"} /\ dpc' # dpc)
          => (dpc' \in {"head_sleep", "get_sleep"}
                <=> (period_remaining(elapsed) > 0 /\ admissions_left = 0))]_vars
  /\ [](period_remaining(elapsed) > 0
          => downloads_unblocked(num_calls, elapsed, CALLS) = admissions_left \div 2)
  /\ [](downloads_unblocked(0, 0, CALLS) = CALLS \div 2)

\* the third download of a window is refused at its GET request
C39_Witness ==
  /\ dpc = "get_sleep"
  /\ ndirect = 3
  /\ admitted = 1
  /\ heads = 1
  /\ elapsed = 0

\* C31: health_check reports for each component what that component's own
\* check found, whatever the other checks did, and temp_directory is true
\* only for a temp directory that exists and is writable.
C31_IndependentStatuses ==
  hpc = "returned"
    => /\ health.database = get_connection_status(components.database)
       /\ health.temp_directory = (components.temp_dir = "dir")
       /\ health.video_downloader = components.session
       /\ health.frame_extractor = components.default_percentages

\* C32: a request is refused by the limiter only on account of admissions
\* given to requests of its own VideoDownloader instance: when a request of
\* an instance has to sleep, that instance's calls have been given at least
\* CALLS admissions.
C32_OwnAdmissionsOnly ==
  dpc \in {"head_sleep", "get_sleep"}
    => admissions_of[instance] + admitted >= CALLS

\* C40: process_clip_by_id never changes total_processed, successful_processed
\* or failed_processed, whether it processes a clip, finds none or fails;
\* when the clip is not found it returns without a result and without a call
\* of the downloader or the extractor, and an error of the gateway leaves the
\* call at once, with no second attempt.
C40_ByIdLeavesCounters ==
  /\ [][(by_id \/ by_id')
          => UNCHANGED <<total_processed, successful_processed,
                         failed_processed>>]_vars
  /\ [][(ppc' \in {"by_id_none", "by_id_raised"} /\ ppc' # ppc)
          => (ppc = "idle" /\ UNCHANGED <<fs, dvars, frames, saved, result>>)]_vars
  /\ [](ppc \in {"by_id_none", "by_id_raised"}
          => (dpc = "idle" /\ result = ProcessingResult("c1") /\ frames = 0
              /\ saved = {}))
  /\ [][(ppc \in {"by_id_none", "by_id_raised"} /\ ppc' # ppc)
          => ppc' = "idle"]_vars
  /\ [][(by_id /\ ppc = "single_returned" /\ ppc' # ppc)
          => (ppc' = "by_id_returned" /\ result' = result)]_vars

\* after a batch with only failed clips, a clip processed by id has succeeded
\* and the counters still show the batch
C40_Witness ==
  /\ ppc = "by_id_returned"
  /\ result.success
  /\ total_processed > 0
  /\ successful_processed = 0
  /\ failed_processed = total_processed

====
